---- MODULE Spec2Model ----
(***************************************************************************)
(* A model of project-mira's backend: the record merger of                 *)
(* backend/merging.py (load_and_merge_data and GET /all-properties) and    *)
(* the prediction pipeline of backend/main.py (model loading at import,    *)
(* prepare_model_input, predict_with_model, POST /predict, POST /compare).  *)
(*                                                                         *)
(* Four specifications share the definitions below:                        *)
(*   SpecMerge     merging.py: the import-time merge, then /all-properties *)
(*   SpecDerive    prepare_model_input applied to raw property records     *)
(*   SpecEstimate  predict_with_model, one model call per step             *)
(*   Spec          main.py as a server: import-time loading, then          *)
(*                 interleaved requests                                    *)
(***************************************************************************)
EXTENDS Integers, Sequences, FiniteSets, TLC

VARIABLES
    \* ---- merging.py
    file_contents,      \* what each path of file_paths holds on disk, in path order
    fidx,               \* index of the next path of the for loop (line 20)
    final_data_map,     \* the insertion-ordered dict of line 18
    mpc,                \* "loop" | "raised" | "serving"
    FULL_PROPERTY_DATA, \* the module global of line 50
    all_resp            \* the last response of GET /all-properties

VARIABLES
    \* ---- main.py, prepare_model_input called on its own
    raw,                \* the argument (the raw property record)
    dpc,                \* "idle" | "called" | "returned" | "raised"
    derived             \* the feature record returned

VARIABLES
    \* ---- main.py
    MODEL,              \* the module global of lines 62-86
    input_data,         \* predict_with_model called on its own: the argument
    est,                \* ... and the call's progress
    PROPERTIES,         \* the module global of lines 49-57
    bootpc,             \* where the import of main.py is: "properties" | "open" |
                        \* "std" | "seek" | "safe" | "serving"
    load_log,           \* what the import did to the model artifact, in order
    reqs                \* the requests in flight, one slot each

mergeVars == <<file_contents, fidx, final_data_map, mpc, FULL_PROPERTY_DATA, all_resp>>
deriveVars == <<raw, dpc, derived>>

estVars == <<input_data, est>>

serverVars == <<PROPERTIES, bootpc, load_log, reqs>>

vars == <<mergeVars, deriveVars, MODEL, estVars, serverVars>>

\* what the actions of one part leave alone
notMerge == <<deriveVars, MODEL, estVars, serverVars>>
notDerive == <<mergeVars, MODEL, estVars, serverVars>>
notEstimate == <<mergeVars, deriveVars, serverVars>>
notServer == <<deriveVars, estVars>>

(***************************************************************************)
(* Python values.  A dict over the keys the model follows is a function    *)
(* from the keys to values, Absent standing for "key not in the dict";     *)
(* Null is None (JSON null).                                               *)
(***************************************************************************)
Absent == "absent"
Null == "null"

(***************************************************************************)
(*                         backend/merging.py                              *)
(***************************************************************************)
Fields == {"id", "price", "city"}

EmptyDict == [f \in Fields |-> Absent]

\* dict.get(key): None when the key is missing
Get(d, k) == IF d[k] = Absent THEN Null ELSE d[k]

\* (a variant that fills only the keys not yet set: the first file would win)
Update_KeepFirst(d, item) == [f \in Fields |-> IF d[f] # Absent THEN d[f] ELSE item[f]]

\* dict.update(item): every key of item overwrites, the other keys stay
Update(d, item) == [f \in Fields |-> IF item[f] # Absent THEN item[f] ELSE d[f]]

HasKey(m, k) == \E i \in 1..Len(m) : m[i].key = k

\* the body of the inner for loop, for an item that is a dict
MergeItem(m, item) ==
    LET property_id == Get(item, "id") IN
    IF property_id = Null
    THEN m
    ELSE LET m1 == IF HasKey(m, property_id)
                   THEN m
                   ELSE Append(m, [key |-> property_id, val |-> EmptyDict])
         IN [i \in 1..Len(m1) |->
                IF m1[i].key = property_id
                THEN [key |-> property_id, val |-> Update(m1[i].val, item)]
                ELSE m1[i]]

\* for item in data_list: an item that is no dict has no .get, and the
\* AttributeError leaves the loop with the items before it already merged
RECURSIVE MergeItems(_, _)
MergeItems(m, items) ==
    IF items = <<>> THEN [map |-> m, raised |-> FALSE]
    ELSE IF Head(items).t # "dict" THEN [map |-> m, raised |-> TRUE]
    ELSE MergeItems(MergeItem(m, Head(items).d), Tail(items))

\* the exceptions the except clause of line 39 names
Caught(kind) == kind \in {"missing", "badjson"}

\* one iteration of "for file_path in file_paths": the try block and its except
ProcessFile(m, file) ==
    CASE Caught(file.kind) -> [map |-> m, raised |-> FALSE]
      [] file.kind = "array" -> MergeItems(m, file.items)
      [] OTHER -> [map |-> m, raised |-> TRUE]

Values(m) == [i \in 1..Len(m) |-> m[i].val]

\* the whole function: the loop over the paths from path i on, then the list
RECURSIVE MergeFrom(_, _, _)
MergeFrom(m, files, i) ==
    IF i > Len(files) THEN [map |-> m, raised |-> FALSE]
    ELSE LET r == ProcessFile(m, files[i]) IN
         IF r.raised THEN r ELSE MergeFrom(r.map, files, i + 1)

load_and_merge_data(files) ==
    LET r == MergeFrom(<<>>, files, 1) IN
    [raised |-> r.raised, final_list |-> IF r.raised THEN <<>> ELSE Values(r.map)]

\* ---- the inputs: what the files hold
NumFiles == 3
MaxItems == 1

Dict(id, price, city) == [id |-> id, price |-> price, city |-> city]

Records ==
    { Dict("p1", "100", "Pune"), Dict("p1", "200", Absent),
      Dict("p2", "100", Absent), Dict(Null, "200", Absent),
      Dict(Absent, Absent, "Pune") }

Items == { [t |-> "dict", d |-> r] : r \in Records }
            \cup { [t |-> "number", d |-> EmptyDict] }

Arrays == UNION { [1..n -> Items] : n \in 0..MaxItems }

FileContents ==
    { [kind |-> k, items |-> <<>>] : k \in {"missing", "badjson", "unreadable", "object"} }
        \cup { [kind |-> "array", items |-> a] : a \in Arrays }

MergeInit ==
    /\ file_contents \in [1..NumFiles -> FileContents]
    /\ fidx = 1
    /\ final_data_map = <<>>
    /\ mpc = "loop"
    /\ FULL_PROPERTY_DATA = <<>>
    /\ all_resp = [sent |-> FALSE, body |-> <<>>]

\* lines 20-42: one path of the loop
MergeFile ==
    /\ mpc = "loop"
    /\ fidx <= Len(file_contents)
    /\ LET r == ProcessFile(final_data_map, file_contents[fidx]) IN
        /\ final_data_map' = r.map
        /\ mpc' = IF r.raised THEN "raised" ELSE "loop"
    /\ fidx' = fidx + 1
    /\ UNCHANGED <<file_contents, FULL_PROPERTY_DATA, all_resp, notMerge>>

\* lines 45-46 and 50: the loop is over, the list is returned and bound to the global
MergeReturn ==
    /\ mpc = "loop"
    /\ fidx > Len(file_contents)
    /\ FULL_PROPERTY_DATA' = Values(final_data_map)
    /\ mpc' = "serving"
    /\ UNCHANGED <<file_contents, fidx, final_data_map, all_resp, notMerge>>

\* the handler returns the global itself and changes nothing on the way
CatalogAfterGet(catalog) == catalog

\* lines 55-61
get_all_merged_properties ==
    /\ mpc = "serving"
    /\ ~all_resp.sent
    /\ all_resp' = [sent |-> TRUE, body |-> FULL_PROPERTY_DATA]
    /\ FULL_PROPERTY_DATA' = CatalogAfterGet(FULL_PROPERTY_DATA)
    /\ UNCHANGED <<file_contents, fidx, final_data_map, mpc, notMerge>>


(***************************************************************************)
(*                 backend/main.py: prepare_model_input                    *)
(*                                                                         *)
(* A string is the sequence of its characters.  A value of a raw property  *)
(* record is tagged: [t |-> "absent"] the key is missing, "int" an         *)
(* integer v, "bad" a value int() rejects (a non-numeric string), "null"   *)
(* None, "str" a string s, "list" a list l of strings.                     *)
(***************************************************************************)
LowerMap ==
    [H |-> "h", O |-> "o", U |-> "u", S |-> "s", E |-> "e",
     P |-> "p", L |-> "l", G |-> "g", A |-> "a", R |-> "r"]

\* str.lower(), character by character
LowerChar(c) == IF c \in DOMAIN LowerMap THEN LowerMap[c] ELSE c
Lower(s) == [i \in 1..Len(s) |-> LowerChar(s[i])]

\* needle in hay, for strings
Contains(needle, hay) ==
    \E i \in 0..(Len(hay) - Len(needle)) :
        SubSeq(hay, i + 1, i + Len(needle)) = needle

House == <<"h", "o", "u", "s", "e">>
Pool == <<"p", "o", "o", "l">>
Garage == <<"g", "a", "r", "a", "g", "e">>

AbsentV == [t |-> "absent", v |-> 0, s |-> <<>>, l |-> <<>>]
NullV == [t |-> "null", v |-> 0, s |-> <<>>, l |-> <<>>]
BadV == [t |-> "bad", v |-> 0, s |-> <<>>, l |-> <<>>]
IntV(n) == [t |-> "int", v |-> n, s |-> <<>>, l |-> <<>>]
StrV(str) == [t |-> "str", v |-> 0, s |-> str, l |-> <<>>]
ListV(lst) == [t |-> "list", v |-> 0, s |-> <<>>, l |-> lst]

PropKeys ==
    {"bedrooms", "bathrooms", "size_sqft", "amenities", "title",
     "year_built", "school_rating", "location"}

\* prop is None
NoneProp == [isNone |-> TRUE, d |-> [k \in PropKeys |-> AbsentV]]
DictProp(d) == [isNone |-> FALSE, d |-> d]

\* "if prop": None and the empty dict are both falsy
Truthy(prop) == ~prop.isNone /\ \E k \in PropKeys : prop.d[k].t # "absent"

\* int(prop.get(key, default)); CoerceFails says the int() raises
Coerced(prop, key, default) ==
    IF prop.d[key].t = "absent" THEN default ELSE prop.d[key].v
CoerceFails(prop, key) == prop.d[key].t \notin {"absent", "int"}

\* prop.get("title", "").lower() if prop else ""; None has no .lower()
TitleFails(prop) == Truthy(prop) /\ prop.d["title"].t \notin {"absent", "str"}
TitleLower(prop) ==
    IF Truthy(prop) /\ prop.d["title"].t = "str" THEN Lower(prop.d["title"].s) ELSE <<>>

\* [a.lower() for a in prop.get("amenities", [])]
Amenities(prop) ==
    IF Truthy(prop) /\ prop.d["amenities"].t = "list"
    THEN [i \in 1..Len(prop.d["amenities"].l) |-> Lower(prop.d["amenities"].l[i])]
    ELSE <<>>

\* (a variant with the bedroom threshold off by one)
PropertyType_Above4(bedrooms, title) ==
    IF bedrooms > 4 \/ Contains(House, title) THEN "SFH" ELSE "Condo"

\* lines 131-135
PropertyType(bedrooms, title) ==
    IF bedrooms >= 4 \/ Contains(House, title) THEN "SFH" ELSE "Condo"

\* lines 138-139
LotArea(size, property_type) == IF property_type = "SFH" THEN size * 2 ELSE 0
\* (a variant that sets the building area whatever the type)
BuildingArea_Always(size, property_type) == size
BuildingArea(size, property_type) == IF property_type = "Condo" THEN size ELSE 0

\* lines 142-143
HasAmenity(word, amenities) ==
    \E i \in 1..Len(amenities) : Contains(word, amenities[i])

NoFeatures ==
    [property_type |-> "Condo", lot_area |-> 0, building_area |-> 0, bedrooms |-> 0,
     bathrooms |-> 0, year_built |-> 0, has_pool |-> FALSE, has_garage |-> FALSE,
     school_rating |-> 0]

\* The whole function: [raised, f].  The int() calls of lines 119-121 and 146-147
\* raise on a value that is no integer, and the title is lowered only when
\* "bedrooms >= 4" did not already decide the "or" of line 133.
prepare_model_input(prop) ==
    LET t == Truthy(prop)
        bedrooms == IF t THEN Coerced(prop, "bedrooms", 3) ELSE 3
        bathrooms == IF t THEN Coerced(prop, "bathrooms", 2) ELSE 2
        size == IF t THEN Coerced(prop, "size_sqft", 1500) ELSE 1500
        property_type == PropertyType(bedrooms, TitleLower(prop))
        raised ==
            /\ t
            /\ \/ CoerceFails(prop, "bedrooms")
               \/ CoerceFails(prop, "bathrooms")
               \/ CoerceFails(prop, "size_sqft")
               \/ (bedrooms < 4 /\ TitleFails(prop))
               \/ CoerceFails(prop, "year_built")
               \/ CoerceFails(prop, "school_rating")
    IN  IF raised
        THEN [raised |-> TRUE, f |-> NoFeatures]
        ELSE [raised |-> FALSE,
              f |-> [property_type |-> property_type,
                     lot_area |-> LotArea(size, property_type),
                     building_area |-> BuildingArea(size, property_type),
                     bedrooms |-> bedrooms,
                     bathrooms |-> bathrooms,
                     year_built |-> IF t THEN Coerced(prop, "year_built", 2015) ELSE 2015,
                     has_pool |-> HasAmenity(Pool, Amenities(prop)),
                     has_garage |-> HasAmenity(Garage, Amenities(prop)),
                     school_rating |-> IF t THEN Coerced(prop, "school_rating", 7) ELSE 7]]

\* ---- the inputs: raw property records
Titles ==
    { AbsentV, NullV, StrV(<<>>), StrV(<<"H", "o", "u", "s", "e">>),
      StrV(<<"H", "O", "U", "S", "E">>), StrV(<<"a", " ", "h", "o", "u", "s", "e", "!">>),
      StrV(<<"h", "o", "u", "s">>), StrV(<<"h", "o", " ", "u", "s", "e">>),
      StrV(<<"L", "o", "f", "t">>) }

AmenityLists ==
    { AbsentV, ListV(<<>>), ListV(<<<<"P", "o", "o", "l">>>>),
      ListV(<<<<"g", "y", "m">>, <<"G", "A", "R", "A", "G", "E", "S">>>>),
      ListV(<<<<"l", "a", "p", " ", "p", "o", "o", "l">>, <<"g", "a", "r", "a", "g", "e">>>>) }

Bedrooms == { AbsentV, BadV, IntV(0), IntV(3), IntV(4), IntV(5) }
Bathrooms == { AbsentV, IntV(1) }
Sizes == { AbsentV, BadV, IntV(0), IntV(1), IntV(900), IntV(-3) }

MkProp(bedrooms, bathrooms, size, amenities, title, location) ==
    DictProp([k \in PropKeys |->
        CASE k = "bedrooms" -> bedrooms
          [] k = "bathrooms" -> bathrooms
          [] k = "size_sqft" -> size
          [] k = "amenities" -> amenities
          [] k = "title" -> title
          [] k = "location" -> location
          [] OTHER -> AbsentV])

Props ==
    { NoneProp, DictProp([k \in PropKeys |-> AbsentV]) }
        \cup { MkProp(b, ba, sz, am, ti, StrV(<<"x">>)) :
                  b \in Bedrooms, ba \in Bathrooms, sz \in Sizes,
                  am \in AmenityLists, ti \in Titles }

DeriveInit ==
    /\ raw \in Props
    /\ dpc = "called"
    /\ derived = NoFeatures

\* the call returns the feature record
DeriveReturn ==
    /\ dpc = "called"
    /\ ~prepare_model_input(raw).raised
    /\ derived' = prepare_model_input(raw).f
    /\ dpc' = "returned"
    /\ UNCHANGED <<raw, notDerive>>

\* the call raises (a coercion error propagates)
DeriveRaise ==
    /\ dpc = "called"
    /\ prepare_model_input(raw).raised
    /\ dpc' = "raised"
    /\ UNCHANGED <<raw, derived, notDerive>>

(***************************************************************************)
(*        backend/main.py: the model handle and predict_with_model         *)
(*                                                                         *)
(* MODEL is an opaque object.  What the model has to say about it is what  *)
(* MODEL.predict does for each of the three shapes predict_with_model      *)
(* passes: "a" a one-row DataFrame, "b" a one-element list of dicts, "c"   *)
(* the dict itself.  A call's outcome is [r, v, n]:                        *)
(*   r = "raise"    predict raises an Exception                            *)
(*   r = "list"     it returns an indexable of n numbers, each v           *)
(*   r = "liststr"  it returns an indexable whose element 0 float() rejects*)
(*   r = "scalar"   it returns the bare number v (no __getitem__)          *)
(*   r = "none"     it returns None (no __getitem__, float() rejects it)   *)
(***************************************************************************)
FALLBACK_PRICE == 350000
TRAP_PRICE == 350000
FEATURE_COUNT == 9

Out(r, v, n) == [r |-> r, v |-> v, n |-> n]
Raise == Out("raise", 0, 0)

\* the handle's kinds: "none" is MODEL = None, "trap" an instance of
\* ComplexTrapModelRenamed (model: "unset" no such attribute, "none" None,
\* "inner" an inner model that behaves as a, b, c say), "opaque" any other object
NoModel == [kind |-> "none", model |-> "-", a |-> Raise, b |-> Raise, c |-> Raise]
Opaque(a, b, c) == [kind |-> "opaque", model |-> "-", a |-> a, b |-> b, c |-> c]
Trap(model, a, b, c) == [kind |-> "trap", model |-> model, a |-> a, b |-> b, c |-> c]

\* len(X) of the three shapes: one row, one element, the dict's keys
XLen(shape) == IF shape = "c" THEN FEATURE_COUNT ELSE 1

\* ComplexTrapModelRenamed.predict
TrapPredict(h, shape) ==
    CASE h.model = "unset" -> Raise
      [] h.model = "inner" -> h[shape]
      [] OTHER -> Out("list", TRAP_PRICE, XLen(shape))

\* MODEL.predict(X)
Predict(h, shape) == IF h.kind = "trap" THEN TrapPredict(h, shape) ELSE h[shape]

\* float(...) of an integer below 2^53 is that number
ToFloat(v) == v

\* float(pred[0]), lines 186 and 190
IndexFloat(out) ==
    IF out.r = "list" /\ out.n >= 1
    THEN [ok |-> TRUE, v |-> ToFloat(out.v)]
    ELSE [ok |-> FALSE, v |-> 0]

\* (a variant of line 195 without the hasattr branch)
DirectFloat_IndexOnly(out) == IndexFloat(out)

\* line 195: float(pred[0]) if hasattr(pred, "__getitem__") else float(pred)
DirectFloat(out) ==
    IF out.r \in {"list", "liststr"} THEN IndexFloat(out)
    ELSE IF out.r = "scalar" THEN [ok |-> TRUE, v |-> ToFloat(out.v)]
    ELSE [ok |-> FALSE, v |-> 0]

\* one of the three try bodies: the call, then the conversion
AttemptResult(h, shape) ==
    LET out == Predict(h, shape) IN
    IF out.r = "raise" THEN [ok |-> FALSE, v |-> 0]
    ELSE IF shape = "c" THEN DirectFloat(out)
    ELSE IndexFloat(out)

Max(x, y) == IF x >= y THEN x ELSE y

\* (a variant that takes the lot area unhalved)
RuleBasedPrice_WholeLot(x) ==
    LET area == IF x.building_area # 0 THEN x.building_area ELSE Max(1, x.lot_area)
    IN ToFloat(200 * area + x.bedrooms * 15000 + x.bathrooms * 10000
               + (IF x.has_pool THEN 50000 ELSE 0)
               + (IF x.has_garage THEN 20000 ELSE 0))

\* lines 170-180
RuleBasedPrice(x) ==
    LET area == IF x.building_area # 0
                THEN x.building_area
                ELSE Max(1, x.lot_area \div 2)
        base == 200 * area
    IN ToFloat(base + x.bedrooms * 15000 + x.bathrooms * 10000
               + (IF x.has_pool THEN 50000 ELSE 0)
               + (IF x.has_garage THEN 20000 ELSE 0))

\* (a variant whose first except goes straight to the third shape)
NextShape_SkipList(shape) == "c"

\* the except clause that follows a failed attempt leads to the next try
NextShape(shape) == IF shape = "a" THEN "b" ELSE "c"

\* each of the three calls sits in a try whose except names Exception
Guarded(shape) == shape \in {"a", "b", "c"}

\* A call of predict_with_model in progress: where it is, the shapes MODEL.predict
\* was called with so far, and the value returned.
EstStart == [pc |-> "enter", calls |-> <<>>, result |-> 0]

EstStep(h, x, fr) ==
    IF fr.pc = "enter"
    THEN IF h.kind = "none"
         THEN [fr EXCEPT !.pc = "done", !.result = RuleBasedPrice(x)]
         ELSE [fr EXCEPT !.pc = "a"]
    ELSE LET r == AttemptResult(h, fr.pc)
             called == [fr EXCEPT !.calls = Append(fr.calls, fr.pc)]
         IN  IF r.ok THEN [called EXCEPT !.pc = "done", !.result = r.v]
             ELSE IF ~Guarded(fr.pc) THEN [called EXCEPT !.pc = "raised"]
             ELSE IF fr.pc = "c"
                  THEN [called EXCEPT !.pc = "done", !.result = ToFloat(FALLBACK_PRICE)]
                  ELSE [called EXCEPT !.pc = NextShape(fr.pc)]

RECURSIVE RunEst(_, _, _)
RunEst(h, x, fr) ==
    IF fr.pc \in {"done", "raised"} THEN fr ELSE RunEst(h, x, EstStep(h, x, fr))

\* the whole call
predict_with_model(h, x) == RunEst(h, x, EstStart)

\* (a variant that drops the handle once every shape has failed)
ModelAfterCall_Disable(h, x) ==
    LET call == predict_with_model(h, x) IN
    IF h.kind # "none" /\ Len(call.calls) = 3 /\ ~AttemptResult(h, "c").ok
    THEN [kind |-> "none", model |-> "-", a |-> Raise, b |-> Raise, c |-> Raise]
    ELSE h

\* predict_with_model has no "global MODEL" statement and assigns to no global:
\* the handle after a call is the handle before it
ModelAfterCall(h, x) == h

\* ---- the inputs: handles and feature records
ModelValues == {125000, 480000}

Outs ==
    { Raise, Out("none", 0, 0), Out("liststr", 0, 1), Out("list", 0, 0) }
        \cup { Out("list", v, 1) : v \in ModelValues }
        \cup { Out("scalar", v, 0) : v \in ModelValues }

Handles ==
    { NoModel, Trap("unset", Raise, Raise, Raise), Trap("none", Raise, Raise, Raise) }
        \cup { Trap("inner", o, o, o) : o \in Outs }
        \cup { Opaque(a, b, c) : a \in Outs, b \in Outs, c \in Outs }

Features(pt, lot, building, bedrooms, bathrooms, pool, garage) ==
    [property_type |-> pt, lot_area |-> lot, building_area |-> building,
     bedrooms |-> bedrooms, bathrooms |-> bathrooms, year_built |-> 2015,
     has_pool |-> pool, has_garage |-> garage, school_rating |-> 7]

FeatureInputs ==
    { Features(pt, lot, building, bedrooms, 2, pool, garage) :
        pt \in {"SFH"}, lot \in {0, 1, 3, 1800, -5}, building \in {0, 1, 900},
        bedrooms \in {0, 3}, pool \in BOOLEAN, garage \in BOOLEAN }

EstimateInit ==
    /\ MODEL \in Handles
    /\ input_data \in FeatureInputs
    /\ est = EstStart

\* line 169: no handle, the rule-based price is returned
PredictRuleBased ==
    /\ est.pc = "enter"
    /\ MODEL.kind = "none"
    /\ est' = EstStep(MODEL, input_data, est)
    /\ UNCHANGED <<MODEL, input_data, notEstimate>>

\* line 169: a handle is loaded, on to the first try
PredictEnterModel ==
    /\ est.pc = "enter"
    /\ MODEL.kind # "none"
    /\ est' = EstStep(MODEL, input_data, est)
    /\ UNCHANGED <<MODEL, input_data, notEstimate>>

\* lines 183-198: one try block, and the except that follows it when it fails
PredictAttempt ==
    /\ est.pc \in {"a", "b", "c"}
    /\ est' = EstStep(MODEL, input_data, est)
    /\ MODEL' = ModelAfterCall(MODEL, input_data)
    /\ UNCHANGED <<input_data, notEstimate>>

(***************************************************************************)
(*      backend/main.py as a server: import, then /predict and /compare    *)
(***************************************************************************)
MaxReq == 2

\* (a variant that falls back to a fresh wrapper instead of None)
FailedLoadModel_Wrapper == Trap("none", Raise, Raise, Raise)

\* line 86 (and line 62): what MODEL is when loading failed
FailedLoadModel == NoModel

\* what the two deserializations can produce for the artifact on disk
StdResults ==
    { Opaque(Out("list", 125000, 1), Raise, Raise), Opaque(Raise, Raise, Raise) }
SafeResults ==
    { Trap("none", Raise, Raise, Raise), Trap("unset", Raise, Raise, Raise) }

LogEntry(step, ok, res) == [step |-> step, ok |-> ok, res |-> res]

\* what merged.json can hold
Catalogs == { <<>>, <<Dict("p1", "100", "Pune")>> }

\* ---- request bodies
NoPayload == [present |-> FALSE, property |-> NoneProp]
Payload(pr) == [present |-> TRUE, property |-> pr]

\* PropertyRequest.dict(): four keys, the three numbers validated as integers
Item(bedrooms, bathrooms, size) ==
    MkProp(IntV(bedrooms), IntV(bathrooms), IntV(size), AbsentV, AbsentV, StrV(<<"x">>))

GoodProp == MkProp(AbsentV, IntV(1), IntV(900), ListV(<<<<"P", "o", "o", "l">>>>),
                   StrV(<<"H", "o", "u", "s", "e">>), AbsentV)
BadProp == MkProp(BadV, AbsentV, AbsentV, AbsentV, AbsentV, AbsentV)

Bodies ==
    { [kind |-> "predict", address1 |-> Payload(Item(3, 2, 900)), address2 |-> NoPayload],
      [kind |-> "predict", address1 |-> Payload(Item(4, 1, 0)), address2 |-> NoPayload] }
        \cup { [kind |-> "compare", address1 |-> x, address2 |-> y] :
                 x \in {NoPayload, Payload(GoodProp)},
                 y \in {NoPayload, Payload(GoodProp), Payload(DictProp([k \in PropKeys |-> AbsentV]))} }
        \cup { [kind |-> "compare", address1 |-> Payload(GoodProp), address2 |-> Payload(BadProp)] }

NullResult ==
    [null |-> TRUE, property |-> NoneProp, predicted_price |-> 0, features |-> NoFeatures]
\* {**prop, "predicted_price": price, "features": inp}
Result(pr, price, inp) ==
    [null |-> FALSE, property |-> pr, predicted_price |-> price, features |-> inp]

IdleReq ==
    [pc |-> "idle",
     body |-> [kind |-> "none", address1 |-> NoPayload, address2 |-> NoPayload],
     inp1 |-> NoFeatures, inp2 |-> NoFeatures, derivations |-> 0, estimations |-> 0,
     resp |-> [address1 |-> NullResult, address2 |-> NullResult]]

\* (a variant with "and" for "or")
CompareShortCircuit_And(a1, a2) == ~a1.present /\ ~a2.present

\* line 215: not req.address1 or not req.address2
CompareShortCircuit(a1, a2) == ~a1.present \/ ~a2.present

ServerInit ==
    /\ MODEL = NoModel
    /\ PROPERTIES = <<>>
    /\ bootpc = "properties"
    /\ load_log = <<>>
    /\ reqs = [i \in 1..MaxReq |-> IdleReq]

\* lines 49-57
LoadProperties ==
    /\ bootpc = "properties"
    /\ \E c \in Catalogs, ok \in BOOLEAN :
          PROPERTIES' = IF ok THEN c ELSE <<>>
    /\ bootpc' = "open"
    /\ UNCHANGED <<MODEL, load_log, reqs, mergeVars, notServer>>

\* line 66: open(MODEL_PATH, "rb"); a missing file goes to the except of line 83
OpenModelFile ==
    /\ bootpc = "open"
    /\ \E exists \in BOOLEAN :
          /\ load_log' = Append(load_log, LogEntry("open", exists, NoModel))
          /\ bootpc' = IF exists THEN "std" ELSE "serving"
          /\ MODEL' = IF exists THEN MODEL ELSE FailedLoadModel
    /\ UNCHANGED <<PROPERTIES, reqs, mergeVars, notServer>>

\* line 69: pickle.load(f)
StandardLoad ==
    /\ bootpc = "std"
    /\ \/ \E res \in StdResults :
             /\ load_log' = Append(load_log, LogEntry("std", TRUE, res))
             /\ MODEL' = res
             /\ bootpc' = "serving"
       \/ /\ load_log' = Append(load_log, LogEntry("std", FALSE, NoModel))
          /\ bootpc' = "seek"
          /\ UNCHANGED MODEL
    /\ UNCHANGED <<PROPERTIES, reqs, mergeVars, notServer>>

\* line 71: f.seek(0), inside the outer try only
Rewind ==
    /\ bootpc = "seek"
    /\ \E ok \in BOOLEAN :
          /\ load_log' = Append(load_log, LogEntry("seek", ok, NoModel))
          /\ bootpc' = IF ok THEN "safe" ELSE "serving"
          /\ MODEL' = IF ok THEN MODEL ELSE FailedLoadModel
    /\ UNCHANGED <<PROPERTIES, reqs, mergeVars, notServer>>

\* lines 75-82: SafeUnpickler(f).load(), inside the outer try only
SafeLoad ==
    /\ bootpc = "safe"
    /\ \/ \E res \in SafeResults :
             /\ load_log' = Append(load_log, LogEntry("safe", TRUE, res))
             /\ MODEL' = res
       \/ /\ load_log' = Append(load_log, LogEntry("safe", FALSE, NoModel))
          /\ MODEL' = FailedLoadModel
    /\ bootpc' = "serving"
    /\ UNCHANGED <<PROPERTIES, reqs, mergeVars, notServer>>

\* a request arrives and is validated against its schema
Receive(i) ==
    /\ bootpc = "serving"
    /\ reqs[i].pc = "idle"
    /\ \E body \in Bodies :
          reqs' = [reqs EXCEPT ![i] = [@ EXCEPT !.pc = "received", !.body = body]]
    /\ UNCHANGED <<MODEL, PROPERTIES, bootpc, load_log, mergeVars, notServer>>

\* line 206
PredictDerive(i) ==
    /\ reqs[i].pc = "received"
    /\ reqs[i].body.kind = "predict"
    /\ LET r == prepare_model_input(reqs[i].body.address1.property) IN
          reqs' = [reqs EXCEPT ![i] =
                      IF r.raised THEN [@ EXCEPT !.pc = "error"]
                      ELSE [@ EXCEPT !.pc = "derived", !.inp1 = r.f,
                                     !.derivations = @ + 1]]
    /\ UNCHANGED <<MODEL, PROPERTIES, bootpc, load_log, mergeVars, notServer>>

\* lines 207-209
PredictRespond(i) ==
    /\ reqs[i].pc = "derived"
    /\ reqs[i].body.kind = "predict"
    /\ LET call == predict_with_model(MODEL, reqs[i].inp1) IN
          /\ reqs' = [reqs EXCEPT ![i] =
                        IF call.pc = "raised" THEN [@ EXCEPT !.pc = "error"]
                        ELSE [@ EXCEPT !.pc = "responded", !.estimations = @ + 1,
                                 !.resp = [address1 |-> Result(NoneProp, call.result, reqs[i].inp1),
                                           address2 |-> NullResult]]]
          /\ MODEL' = ModelAfterCall(MODEL, reqs[i].inp1)
    /\ UNCHANGED <<PROPERTIES, bootpc, load_log, mergeVars, notServer>>

\* lines 215-216
CompareNull(i) ==
    /\ reqs[i].pc = "received"
    /\ reqs[i].body.kind = "compare"
    /\ CompareShortCircuit(reqs[i].body.address1, reqs[i].body.address2)
    /\ reqs' = [reqs EXCEPT ![i] =
                  [@ EXCEPT !.pc = "responded",
                            !.resp = [address1 |-> NullResult, address2 |-> NullResult]]]
    /\ UNCHANGED <<MODEL, PROPERTIES, bootpc, load_log, mergeVars, notServer>>

\* lines 218-223; req.addressN.property of an absent address raises
CompareDerive(i) ==
    /\ reqs[i].pc = "received"
    /\ reqs[i].body.kind = "compare"
    /\ ~CompareShortCircuit(reqs[i].body.address1, reqs[i].body.address2)
    /\ LET a1 == reqs[i].body.address1
           a2 == reqs[i].body.address2
           r1 == prepare_model_input(a1.property)
           r2 == prepare_model_input(a2.property)
       IN reqs' = [reqs EXCEPT ![i] =
                     IF ~a1.present \/ ~a2.present THEN [@ EXCEPT !.pc = "error"]
                     ELSE IF r1.raised THEN [@ EXCEPT !.pc = "error"]
                     ELSE IF r2.raised
                          THEN [@ EXCEPT !.pc = "error", !.derivations = @ + 1]
                     ELSE [@ EXCEPT !.pc = "derived", !.inp1 = r1.f, !.inp2 = r2.f,
                                    !.derivations = @ + 2]]
    /\ UNCHANGED <<MODEL, PROPERTIES, bootpc, load_log, mergeVars, notServer>>

\* lines 225-232
CompareRespond(i) ==
    /\ reqs[i].pc = "derived"
    /\ reqs[i].body.kind = "compare"
    /\ LET m1 == ModelAfterCall(MODEL, reqs[i].inp1)
           call1 == predict_with_model(MODEL, reqs[i].inp1)
           call2 == predict_with_model(m1, reqs[i].inp2)
       IN /\ reqs' = [reqs EXCEPT ![i] =
                        IF call1.pc = "raised" \/ call2.pc = "raised"
                        THEN [@ EXCEPT !.pc = "error"]
                        ELSE [@ EXCEPT !.pc = "responded", !.estimations = @ + 2,
                                 !.resp = [address1 |-> Result(reqs[i].body.address1.property,
                                                               call1.result, reqs[i].inp1),
                                           address2 |-> Result(reqs[i].body.address2.property,
                                                               call2.result, reqs[i].inp2)]]]
          /\ MODEL' = ModelAfterCall(m1, reqs[i].inp2)
    /\ UNCHANGED <<PROPERTIES, bootpc, load_log, mergeVars, notServer>>

(***************************************************************************)
(*                          The specifications                             *)
(***************************************************************************)
\* a part that a specification leaves out stays in its "off" state
MergeOff ==
    /\ file_contents = <<>>
    /\ fidx = 1
    /\ final_data_map = <<>>
    /\ mpc = "off"
    /\ FULL_PROPERTY_DATA = <<>>
    /\ all_resp = [sent |-> FALSE, body |-> <<>>]

DeriveOff ==
    /\ raw = NoneProp
    /\ dpc = "off"
    /\ derived = NoFeatures

EstimateOff ==
    /\ input_data = NoFeatures
    /\ est = [pc |-> "off", calls |-> <<>>, result |-> 0]

ServerOff ==
    /\ PROPERTIES = <<>>
    /\ bootpc = "off"
    /\ load_log = <<>>
    /\ reqs = <<>>

\* merging.py after an import that went through, for the server specification
ServedFiles ==
    { [i \in 1..NumFiles |->
          IF i = 2 THEN [kind |-> "badjson", items |-> <<>>]
          ELSE [kind |-> "array",
                items |-> <<[t |-> "dict", d |-> Dict("p1", "100", "Pune")]>>]] }

MergeServing ==
    /\ file_contents \in ServedFiles
    /\ fidx = NumFiles + 1
    /\ final_data_map = MergeFrom(<<>>, file_contents, 1).map
    /\ mpc = "serving"
    /\ FULL_PROPERTY_DATA = load_and_merge_data(file_contents).final_list
    /\ all_resp = [sent |-> FALSE, body |-> <<>>]

MergeNext == MergeFile \/ MergeReturn \/ get_all_merged_properties
InitMerge == MergeInit /\ DeriveOff /\ MODEL = NoModel /\ EstimateOff /\ ServerOff
SpecMerge == InitMerge /\ [][MergeNext]_vars

DeriveNext == DeriveReturn \/ DeriveRaise
InitDerive == DeriveInit /\ MergeOff /\ MODEL = NoModel /\ EstimateOff /\ ServerOff
SpecDerive == InitDerive /\ [][DeriveNext]_vars

EstimateNext == PredictRuleBased \/ PredictEnterModel \/ PredictAttempt
InitEstimate == EstimateInit /\ MergeOff /\ DeriveOff /\ ServerOff
SpecEstimate == InitEstimate /\ [][EstimateNext]_vars

Init == ServerInit /\ MergeServing /\ DeriveOff /\ EstimateOff
Next ==
    \/ LoadProperties
    \/ OpenModelFile
    \/ StandardLoad
    \/ Rewind
    \/ SafeLoad
    \/ \E i \in 1..MaxReq :
          \/ Receive(i)
          \/ PredictDerive(i)
          \/ PredictRespond(i)
          \/ CompareNull(i)
          \/ CompareDerive(i)
          \/ CompareRespond(i)
    \/ get_all_merged_properties
Spec == Init /\ [][Next]_vars

(***************************************************************************)
(*                             Properties                                  *)
(***************************************************************************)

\* ---- helpers of the properties (written from the statements, not the code)

\* the dict items the files contribute, as positions <<file, item>> in path order
Positions ==
    { <<f, i>> \in (1..Len(file_contents)) \X (1..(MaxItems + 1)) :
        /\ file_contents[f].kind = "array"
        /\ i <= Len(file_contents[f].items)
        /\ file_contents[f].items[i].t = "dict" }
ItemAt(p) == file_contents[p[1]].items[p[2]].d
IdAt(p) == IF ItemAt(p)["id"] = Absent THEN Null ELSE ItemAt(p)["id"]
DistinctIds == { IdAt(p) : p \in Positions } \ {Null}
Carriers(id, fld) == { p \in Positions : IdAt(p) = id /\ ItemAt(p)[fld] # Absent }
Later(p, q) == p[1] > q[1] \/ (p[1] = q[1] /\ p[2] > q[2])
LastCarried(id, fld) ==
    IF Carriers(id, fld) = {} THEN Absent
    ELSE LET p == CHOOSE p \in Carriers(id, fld) :
                      \A q \in Carriers(id, fld) : q = p \/ Later(p, q)
         IN ItemAt(p)[fld]

\* a file that parses to a JSON array of records
ValidFile(file) ==
    file.kind = "array" /\ \A i \in 1..Len(file.items) : file.items[i].t = "dict"

\* the linear formula of the rule-based price
LinearPrice(x) ==
    LET half == x.lot_area \div 2
        area == IF x.building_area # 0 THEN x.building_area
                ELSE IF half > 1 THEN half ELSE 1
    IN 200 * area + 15000 * x.bedrooms + 10000 * x.bathrooms
         + (IF x.has_pool THEN 50000 ELSE 0) + (IF x.has_garage THEN 20000 ELSE 0)

\* the integer a raw record gives for a key, with its default
GivenInt(pr, key, default) ==
    IF pr.isNone \/ pr.d[key].t # "int" THEN default ELSE pr.d[key].v

\* "house" somewhere in the title, in any mix of cases
HouseLetters == << {"h", "H"}, {"o", "O"}, {"u", "U"}, {"s", "S"}, {"e", "E"} >>
TitleHasHouse(pr) ==
    /\ ~pr.isNone
    /\ pr.d["title"].t = "str"
    /\ \E i \in 1..Len(pr.d["title"].s) :
          /\ i + 4 <= Len(pr.d["title"].s)
          /\ \A k \in 1..5 : pr.d["title"].s[i + k - 1] \in HouseLetters[k]

\* a model call's outcome can be indexed into a scalar
IndexesToScalar(out) == out.r = "list" /\ out.n > 0

Loaded == MODEL.kind # "none"

\* ---- C1: with a handle loaded, predict_with_model calls the model with the
\* shapes a, b, c in that order, each only after every earlier one failed; the
\* result is the value of the first attempt that succeeds, 350000.0 when all
\* three fail; the call never ends in an exception.
C1_AttemptOrder ==
    Loaded /\ est.pc # "off" =>
        /\ est.pc # "raised"
        /\ est.calls \in { <<>>, <<"a">>, <<"a", "b">>, <<"a", "b", "c">> }
        /\ \A i \in 1..Len(est.calls) :
              (i < Len(est.calls) \/ est.pc # "done") => ~AttemptResult(MODEL, est.calls[i]).ok
        /\ est.pc = "done" =>
              /\ est.calls # <<>>
              /\ LET r == AttemptResult(MODEL, est.calls[Len(est.calls)]) IN
                    IF r.ok THEN est.result = r.v
                    ELSE Len(est.calls) = 3 /\ est.result = 350000

C1_Witness ==
    /\ est.pc = "done"
    /\ MODEL.kind = "opaque"
    /\ est.calls = <<"a", "b">>
    /\ est.result = 480000

\* ---- C2: with no handle loaded, predict_with_model returns the linear formula
\* of the feature record, and calls no model.
C2_RuleBasedFormula ==
    ~Loaded /\ est.pc # "off" =>
        /\ est.pc \in {"enter", "done"}
        /\ est.calls = <<>>
        /\ est.pc = "done" => est.result = LinearPrice(input_data)

C2_Witness ==
    /\ est.pc = "done"
    /\ ~Loaded
    /\ input_data.building_area = 0
    /\ input_data.lot_area = 1800
    /\ input_data.bedrooms = 3
    /\ input_data.has_pool /\ ~input_data.has_garage
    /\ est.result = 295000

\* ---- C3 as stated: in every derived feature record exactly one of lot_area
\* and building_area is nonzero, lot_area for SFH and building_area for Condo.
C3_ExactlyOneArea ==
    dpc = "returned" =>
        /\ (derived.lot_area # 0) # (derived.building_area # 0)
        /\ derived.property_type = "SFH" => derived.lot_area # 0 /\ derived.building_area = 0
        /\ derived.property_type = "Condo" => derived.building_area # 0 /\ derived.lot_area = 0

\* ---- C3 as amended: the area of the other type is always 0; the area of the
\* record's own type is 2 * size for SFH and size for Condo, so exactly one of
\* the two is nonzero when size_sqft (default 1500) is nonzero, and both are 0
\* when size_sqft is 0.
C3_AreasFollowSize ==
    dpc = "returned" =>
        LET size == GivenInt(raw, "size_sqft", 1500) IN
        /\ derived.property_type = "SFH" =>
              derived.lot_area = 2 * size /\ derived.building_area = 0
        /\ derived.property_type = "Condo" =>
              derived.building_area = size /\ derived.lot_area = 0
        /\ size # 0 => (derived.lot_area # 0) # (derived.building_area # 0)
        /\ size = 0 => derived.lot_area = 0 /\ derived.building_area = 0

C3_Witness ==
    /\ dpc = "returned"
    /\ derived.property_type = "SFH"
    /\ derived.lot_area = 1800
    /\ derived.building_area = 0

\* ---- C4: the list load_and_merge_data returns holds exactly one record per
\* distinct non-null id of the files, and each field of it is the value of the
\* last record, in path order, that carries that field for that id (a field
\* carried only by earlier files is kept).
C4_LastFileWins ==
    mpc = "serving" =>
        /\ Len(FULL_PROPERTY_DATA) = Cardinality(DistinctIds)
        /\ \A id \in DistinctIds :
              Cardinality({ i \in 1..Len(FULL_PROPERTY_DATA) :
                              FULL_PROPERTY_DATA[i]["id"] = id }) = 1
        /\ \A i \in 1..Len(FULL_PROPERTY_DATA) :
              /\ FULL_PROPERTY_DATA[i]["id"] \in DistinctIds
              /\ \A fld \in Fields :
                    FULL_PROPERTY_DATA[i][fld] = LastCarried(FULL_PROPERTY_DATA[i]["id"], fld)

C4_Witness ==
    /\ mpc = "serving"
    /\ Len(FULL_PROPERTY_DATA) = 2
    /\ \E i \in 1..2 : FULL_PROPERTY_DATA[i] = Dict("p1", "200", "Pune")
    /\ file_contents[1].kind = "array"
    /\ file_contents[3].kind = "array"

\* ---- C5 as stated: load_and_merge_data never raises, and what it returns is
\* the merge of the files that parse to a JSON array of records, the others
\* skipped.
C5_NeverRaises ==
    /\ mpc # "raised"
    /\ mpc = "serving" =>
          FULL_PROPERTY_DATA =
              load_and_merge_data(SelectSeq(file_contents, ValidFile)).final_list

\* ---- C6: importing main.py always reaches serving, with MODEL the result of
\* the standard deserialization if that succeeded, else the result of the
\* class-remapping one (tried only after the standard one failed and the file
\* was rewound) if that succeeded, else None; with MODEL None every price a
\* request gets is the rule-based one.
LogAt(step) == { i \in 1..Len(load_log) : load_log[i].step = step }
Did(step, ok) == \E i \in LogAt(step) : load_log[i].ok = ok
ResultOf(step) == load_log[CHOOSE i \in LogAt(step) : TRUE].res

C6_ModelLoadOutcome ==
    bootpc # "off" =>
        /\ bootpc \in {"properties", "open", "std", "seek", "safe", "serving"}
        /\ \A i \in LogAt("safe") :
              /\ i = 4
              /\ load_log[1] = LogEntry("open", TRUE, NoModel)
              /\ load_log[2] = LogEntry("std", FALSE, NoModel)
              /\ load_log[3] = LogEntry("seek", TRUE, NoModel)
        /\ bootpc = "serving" =>
              MODEL = IF Did("std", TRUE) THEN ResultOf("std")
                      ELSE IF Did("safe", TRUE) THEN ResultOf("safe")
                      ELSE NoModel
        /\ bootpc = "serving" /\ (Did("open", FALSE) \/ Did("safe", FALSE)) => MODEL = NoModel
        /\ ~Loaded =>
              \A i \in 1..MaxReq :
                 reqs[i].pc = "responded" /\ ~reqs[i].resp.address1.null =>
                    /\ reqs[i].resp.address1.predicted_price = LinearPrice(reqs[i].inp1)
                    /\ reqs[i].body.kind = "compare" =>
                          reqs[i].resp.address2.predicted_price = LinearPrice(reqs[i].inp2)

C6_Witness ==
    /\ bootpc = "serving"
    /\ Did("std", FALSE)
    /\ Did("safe", FALSE)
    /\ MODEL = NoModel
    /\ \E i \in 1..MaxReq :
          /\ reqs[i].pc = "responded"
          /\ reqs[i].body.kind = "predict"
          /\ reqs[i].resp.address1.predicted_price = 245000

\* ---- C7: property_type is "SFH" exactly when the bedrooms value (default 3)
\* is at least 4 or the title contains "house" in any mix of cases, and "Condo"
\* otherwise; an absent record or title counts as a title without "house".
C7_PropertyTypeRule ==
    dpc = "returned" =>
        /\ derived.property_type \in {"SFH", "Condo"}
        /\ derived.property_type = "SFH" <=>
              (GivenInt(raw, "bedrooms", 3) >= 4 \/ TitleHasHouse(raw))

C7_Witness ==
    /\ dpc = "returned"
    /\ raw.d["title"] = StrV(<<"H", "O", "U", "S", "E">>)
    /\ raw.d["bedrooms"] = IntV(3)
    /\ derived.property_type = "SFH"

\* ---- C8: /compare with an address missing answers {address1: null,
\* address2: null} without deriving features or estimating a price; with both
\* present its answer holds two non-null records, each the property's own
\* fields with predicted_price and features added.
C8_CompareBothOrNull ==
    \A i \in DOMAIN reqs :
        reqs[i].body.kind = "compare" =>
            LET a1 == reqs[i].body.address1
                a2 == reqs[i].body.address2
                resp == reqs[i].resp
            IN
            /\ ~a1.present \/ ~a2.present =>
                  /\ reqs[i].pc \in {"received", "responded"}
                  /\ reqs[i].derivations = 0 /\ reqs[i].estimations = 0
                  /\ reqs[i].pc = "responded" => resp.address1.null /\ resp.address2.null
            /\ reqs[i].pc = "responded" /\ a1.present /\ a2.present =>
                  /\ ~resp.address1.null /\ ~resp.address2.null
                  /\ resp.address1.property = a1.property
                  /\ resp.address2.property = a2.property
                  /\ resp.address1.features = prepare_model_input(a1.property).f
                  /\ resp.address2.features = prepare_model_input(a2.property).f
                  /\ resp.address1.predicted_price =
                        predict_with_model(MODEL, resp.address1.features).result
                  /\ resp.address2.predicted_price =
                        predict_with_model(MODEL, resp.address2.features).result

C8_Witness ==
    \E i \in DOMAIN reqs :
        /\ reqs[i].body.kind = "compare"
        /\ reqs[i].body.address1.present
        /\ ~reqs[i].body.address2.present
        /\ reqs[i].pc = "responded"

\* ---- C9: once the imports are over no request changes MODEL, PROPERTIES or
\* FULL_PROPERTY_DATA, whatever the interleaving; two requests with the same
\* body get the same response, and /all-properties answers the catalog.
C9_RequestsLeaveGlobalsAlone ==
    /\ [][bootpc = "serving" =>
            /\ MODEL' = MODEL
            /\ PROPERTIES' = PROPERTIES
            /\ FULL_PROPERTY_DATA' = FULL_PROPERTY_DATA]_vars
    /\ [](\A i, j \in DOMAIN reqs :
            /\ reqs[i].pc = "responded"
            /\ reqs[j].pc = "responded"
            /\ reqs[i].body = reqs[j].body
            => reqs[i].resp = reqs[j].resp)
    /\ [](all_resp.sent => all_resp.body = FULL_PROPERTY_DATA)

C9_Witness ==
    /\ bootpc = "serving"
    /\ MODEL = Opaque(Raise, Raise, Raise)
    /\ reqs[1].pc = "responded" /\ reqs[2].pc = "responded"
    /\ reqs[1].body.kind = "predict"
    /\ reqs[1].body = reqs[2].body
    /\ all_resp.sent /\ all_resp.body # <<>>

\* ---- C10 as stated: an attempt fails when the call raises or when what it
\* returns cannot be indexed into a scalar, so a model whose three calls all
\* end that way (a bare number for every shape, say) yields 350000.0.
C10_NonIndexableFails ==
    est.pc = "done" /\ Loaded =>
        ((\A shape \in {"a", "b", "c"} : ~IndexesToScalar(Predict(MODEL, shape)))
            => est.calls = <<"a", "b", "c">> /\ est.result = 350000)

\* ---- C10 as amended: for shapes a and b an attempt fails when the call raises
\* or its value cannot be indexed into a scalar, and the next shape is tried;
\* for shape c a value without __getitem__ is converted as it is, so a bare
\* number is the result, and 350000.0 is returned only when the call raises,
\* the value is indexable but gives no scalar, or it is None.
C10_BareNumberAccepted ==
    est.pc = "done" /\ Loaded =>
        LET fa == ~IndexesToScalar(Predict(MODEL, "a"))
            fb == ~IndexesToScalar(Predict(MODEL, "b"))
            oc == Predict(MODEL, "c")
        IN
        /\ fa => Len(est.calls) >= 2 /\ est.calls[2] = "b"
        /\ fa /\ fb => Len(est.calls) = 3 /\ est.calls[3] = "c"
        /\ fa /\ fb /\ oc.r = "scalar" => est.result = oc.v
        /\ fa /\ fb /\ oc.r # "scalar" /\ ~IndexesToScalar(oc) => est.result = 350000

C10_Witness ==
    /\ est.pc = "done"
    /\ MODEL = Opaque(Out("scalar", 125000, 0), Out("scalar", 125000, 0),
                      Out("scalar", 125000, 0))
    /\ est.calls = <<"a", "b", "c">>
    /\ est.result = 125000

====
